---- MODULE Spec2Model ----
(***************************************************************************)
(* Model of optuna/visualization/matplotlib/_pareto_front.py:              *)
(* plot_pareto_front dispatches on info.n_targets to _get_pareto_front_2d  *)
(* or _get_pareto_front_3d, which draw into a new matplotlib Axes.         *)
(* Every statement of the two routines is one step of the model; pyplot's  *)
(* process-wide state (the style sheet and the figure registry) is part of *)
(* the state.                                                              *)
(***************************************************************************)
EXTENDS Integers, Sequences, FiniteSets, TLC

VARIABLES
    info,    \* the _ParetoFrontInfo handed to the running (or last) call
    pc,      \* position of the running call, "idle" between calls
    style,   \* pyplot's process-wide style sheet (rcParams)
    figs,    \* pyplot's figure registry: every surface created so far
    ax,      \* local variable ax of the running routine (index into figs)
    cmap,    \* local variable cmap of the running routine
    trace,   \* drawing calls made so far by the running call, in order
    result,  \* outcome of the last finished call
    calls    \* finished calls: argument, outcome, drawing calls, surface

vars == <<info, pc, style, figs, ax, cmap, trace, result, calls>>

----------------------------------------------------------------------------
(* Bounds of the model. *)

\* longest trial group drawn from
MaxLen == 2
\* n_targets ranges over 0 .. MaxTargets
MaxTargets == 4
\* number of calls in one run of SpecSeq
MaxCalls == 3

----------------------------------------------------------------------------
(* Python values. *)

\* Python's 0-based subscript s[i]
At(s, i) == s[i + 1]

\* Optional[...]: None, or a present value
None == [some |-> FALSE]
Some(v) == [some |-> TRUE, val |-> v]

\* len() of an Optional sequence that is known to be present
OptLen(o) == IF o.some THEN Len(o.val) ELSE 0

\* the permutations of range(n), as 0-based index lists
Perms(n) ==
    {p \in [1 .. n -> 0 .. (n - 1)] :
        \A i, j \in 1 .. n : i # j => p[i] # p[j]}

\* default objective names, "Objective {objective_index}"
TargetNames(n) == [d \in 1 .. n |-> <<"Objective", d - 1>>]

\* the k-th (trial, values) pair of group g (1 = best, 2 = non-best): the
\* values differ in every dimension and from every other trial's values
Trial(g, k, n) == <<100 * g + k, [d \in 1 .. n |-> 100 * g + 10 * k + d]>>

\* a trial group: absent, or a list of 0 .. MaxLen (trial, values) pairs
Groups(g, n) ==
    {None} \cup {Some([k \in 1 .. len |-> Trial(g, k, n)]) : len \in 0 .. MaxLen}

\* the _ParetoFrontInfo values a call is made with
InfosOf(n) ==
    {[n_targets |-> n,
      target_names |-> TargetNames(n),
      axis_order |-> ao,
      best_trials_with_values |-> b,
      non_best_trials_with_values |-> nb] :
        ao \in Perms(n), b \in Groups(1, n), nb \in Groups(2, n)}

Infos == UNION {InfosOf(n) : n \in 0 .. MaxTargets}

\* the inputs of the runs of several calls: the axis order reversed, groups
\* of at most one trial, the best group present, n_targets in 2 .. 4
Reversed(n) == [i \in 1 .. n |-> n - i]

SeqInfos ==
    {i \in InfosOf(2) \cup InfosOf(3) \cup InfosOf(4) :
        /\ i.axis_order = Reversed(i.n_targets)
        /\ i.best_trials_with_values.some
        /\ OptLen(i.best_trials_with_values) <= 1
        /\ OptLen(i.non_best_trials_with_values) <= 1
        /\ (i.n_targets = 4 =>
               /\ OptLen(i.best_trials_with_values) = 1
               /\ OptLen(i.non_best_trials_with_values) = 1)}

NoResult == [kind |-> "none"]

----------------------------------------------------------------------------
(* The drawing surface (matplotlib Figure + Axes). *)

\* a new Axes of the given projection, created under the current style
\* sheet and titled: no label, no artist, no legend yet
NewSurface(projection, naxes) ==
    [projection |-> projection,
     style |-> style,
     title |-> "Pareto-front Plot",
     labels |-> [i \in 1 .. naxes |-> <<>>],
     collections |-> <<>>,
     legend |-> FALSE]

\* Axes.has_data(): some artist has been added to the axes
has_data(s) == Len(s.collections) > 0

\* Axes.scatter(...): one more collection on the axes
scatter(s, data, color, label) ==
    [s EXCEPT !.collections =
        Append(@, [data |-> data, color |-> color, label |-> label])]

\* number of points of all the collections of a surface
RECURSIVE PointCount(_)
PointCount(cols) ==
    IF cols = <<>> THEN 0
    ELSE Len(Head(cols).data[1]) + PointCount(Tail(cols))

----------------------------------------------------------------------------
(* plot_pareto_front *)

\* the branch taken on info.n_targets
\* variant: the 3D branch taken for every count of 3 or more
dispatch_atleast3(n) ==
    IF n = 2 THEN "2d" ELSE IF n >= 3 THEN "3d" ELSE "raise"

dispatch(n) ==
    IF n = 2 THEN "2d" ELSE IF n = 3 THEN "3d" ELSE "raise"

\* the ValueError raised for any other n_targets: the message text (written
\* here without its two backquotes), formatted with the count
ErrorMessage(n) ==
    [kind |-> "ValueError",
     text |-> "plot_pareto_front function only supports 2 or 3 targets. you used {} targets now.",
     count |-> n]

\* the order of the statements of _get_pareto_front_2d
\* variant: the legend test placed before the scatter of the best trials
Order2D_legendEarly ==
    <<"2d_style", "2d_subplots", "2d_labels", "2d_nonbest", "2d_legend",
      "2d_best", "2d_return">>

Order2D ==
    <<"2d_style", "2d_subplots", "2d_labels", "2d_nonbest", "2d_best",
      "2d_legend", "2d_return">>

\* the order of the statements of _get_pareto_front_3d
Order3D ==
    <<"3d_style", "3d_subplots", "3d_labels", "3d_nonbest", "3d_best",
      "3d_legend", "3d_return">>

\* the statement after statement p of a routine
After(order, p) ==
    LET k == CHOOSE j \in 1 .. Len(order) : order[j] = p IN order[k + 1]

\* the record of a finished call
NoSurface == [projection |-> "none"]

Finished(res, surf) ==
    [info |-> info, result |-> res, trace |-> trace, surface |-> surf]

\* a call of plot_pareto_front whose info the collaborator produced as i
Call(i) ==
    /\ pc = "idle"
    /\ Len(calls) < MaxCalls
    /\ info' = i
    /\ pc' = "dispatch"
    /\ ax' = 0
    /\ cmap' = "unset"
    /\ trace' = <<>>
    /\ result' = NoResult
    /\ UNCHANGED <<style, figs, calls>>

\* the if / elif / else on info.n_targets
\* variant: the style sheet set before the count is looked at
Dispatch_styleFirst ==
    /\ pc = "dispatch"
    /\ style' = "ggplot"
    /\ \/ /\ dispatch(info.n_targets) = "2d"
          /\ pc' = Order2D[1]
          /\ trace' = Append(trace, "_get_pareto_front_2d")
          /\ UNCHANGED <<result, calls>>
       \/ /\ dispatch(info.n_targets) = "3d"
          /\ pc' = Order3D[1]
          /\ trace' = Append(trace, "_get_pareto_front_3d")
          /\ UNCHANGED <<result, calls>>
       \/ /\ dispatch(info.n_targets) = "raise"
          /\ result' = ErrorMessage(info.n_targets)
          /\ pc' = "idle"
          /\ calls' = Append(calls, Finished(ErrorMessage(info.n_targets), NoSurface))
          /\ UNCHANGED trace
    /\ UNCHANGED <<info, figs, ax, cmap>>

Dispatch ==
    /\ pc = "dispatch"
    /\ \/ /\ dispatch(info.n_targets) = "2d"
          /\ pc' = Order2D[1]
          /\ trace' = Append(trace, "_get_pareto_front_2d")
          /\ UNCHANGED <<result, calls>>
       \/ /\ dispatch(info.n_targets) = "3d"
          /\ pc' = Order3D[1]
          /\ trace' = Append(trace, "_get_pareto_front_3d")
          /\ UNCHANGED <<result, calls>>
       \/ /\ dispatch(info.n_targets) = "raise"
          /\ result' = ErrorMessage(info.n_targets)
          /\ pc' = "idle"
          /\ calls' = Append(calls, Finished(ErrorMessage(info.n_targets), NoSurface))
          /\ UNCHANGED trace
    /\ UNCHANGED <<info, style, figs, ax, cmap>>

----------------------------------------------------------------------------
(* _get_pareto_front_2d *)

\* plt.style.use("ggplot")
Style2D ==
    /\ pc = "2d_style"
    /\ style' = "ggplot"
    /\ trace' = Append(trace, "style.use")
    /\ pc' = After(Order2D, pc)
    /\ UNCHANGED <<info, figs, ax, cmap, result, calls>>

\* plt.subplots(): a new figure with new axes, added to the registry
\* variant: the current axes reused when a figure exists (plt.gca())
NewAxes2D_current ==
    IF figs = <<>>
    THEN [figs |-> Append(figs, NewSurface("rectilinear", 2)), ax |-> Len(figs) + 1]
    ELSE [figs |-> figs, ax |-> Len(figs)]

NewAxes2D ==
    [figs |-> Append(figs, NewSurface("rectilinear", 2)), ax |-> Len(figs) + 1]

\* the surface is created and titled, the colormap looked up
Subplots2D ==
    /\ pc = "2d_subplots"
    /\ figs' = NewAxes2D.figs
    /\ ax' = NewAxes2D.ax
    /\ cmap' = "tab10"
    /\ trace' = trace \o <<"new_axes", "set_title", "get_cmap">>
    /\ pc' = After(Order2D, pc)
    /\ UNCHANGED <<info, style, result, calls>>

\* the labels of the plotted axes, in plotting order
AxisLabels2D ==
    <<At(info.target_names, At(info.axis_order, 0)),
      At(info.target_names, At(info.axis_order, 1))>>

\* ax.set_xlabel(...) and the following
Labels2D ==
    /\ pc = "2d_labels"
    /\ figs' = [figs EXCEPT ![ax].labels =
                   [i \in 1 .. Len(@) |->
                       IF i <= 2 THEN AxisLabels2D[i] ELSE @[i]]]
    /\ trace' = trace \o <<"set_xlabel", "set_ylabel">>
    /\ pc' = After(Order2D, pc)
    /\ UNCHANGED <<info, style, ax, cmap, result, calls>>

\* the coordinate lists handed to ax.scatter for a trial group
\* variant: axis_order ignored
Coords2D_rawOrder(group) ==
    <<[k \in 1 .. Len(group) |-> At(group[k][2], 0)],
      [k \in 1 .. Len(group) |-> At(group[k][2], 1)]>>

Coords2D(group) ==
    <<[k \in 1 .. Len(group) |-> At(group[k][2], At(info.axis_order, 0))],
      [k \in 1 .. Len(group) |-> At(group[k][2], At(info.axis_order, 1))]>>

\* the test guarding the scatter of the non-best trials
DrawNonBest2D ==
    /\ info.non_best_trials_with_values.some
    /\ Len(info.non_best_trials_with_values.val) > 0

ScatterNonBest2D ==
    /\ pc = "2d_nonbest"
    /\ IF DrawNonBest2D
       THEN /\ figs' = [figs EXCEPT ![ax] =
                           scatter(@, Coords2D(info.non_best_trials_with_values.val),
                                   <<cmap, 0>>, "Trial")]
            /\ trace' = Append(trace, "scatter Trial")
       ELSE UNCHANGED <<figs, trace>>
    /\ pc' = After(Order2D, pc)
    /\ UNCHANGED <<info, style, ax, cmap, result, calls>>

\* the test guarding the scatter of the best trials
DrawBest2D ==
    /\ info.best_trials_with_values.some
    /\ Len(info.best_trials_with_values.val) > 0

ScatterBest2D ==
    /\ pc = "2d_best"
    /\ IF DrawBest2D
       THEN /\ figs' = [figs EXCEPT ![ax] =
                           scatter(@, Coords2D(info.best_trials_with_values.val),
                                   <<cmap, 3>>, "Best Trial")]
            /\ trace' = Append(trace, "scatter Best Trial")
       ELSE UNCHANGED <<figs, trace>>
    /\ pc' = After(Order2D, pc)
    /\ UNCHANGED <<info, style, ax, cmap, result, calls>>

\* the test guarding ax.legend()
\* variant: the legend asks for a non-empty non-best group
ShouldLegend2D_nonEmpty ==
    /\ info.non_best_trials_with_values.some
    /\ Len(info.non_best_trials_with_values.val) > 0

ShouldLegend2D ==
    /\ info.non_best_trials_with_values.some
    /\ has_data(figs[ax])

Legend2D ==
    /\ pc = "2d_legend"
    /\ IF ShouldLegend2D
       THEN /\ figs' = [figs EXCEPT ![ax].legend = TRUE]
            /\ trace' = Append(trace, "legend")
       ELSE UNCHANGED <<figs, trace>>
    /\ pc' = After(Order2D, pc)
    /\ UNCHANGED <<info, style, ax, cmap, result, calls>>

\* return ax
Return2D ==
    /\ pc = "2d_return"
    /\ result' = [kind |-> "Axes", ax |-> ax]
    /\ pc' = "idle"
    /\ calls' = Append(calls, Finished([kind |-> "Axes", ax |-> ax], figs[ax]))
    /\ UNCHANGED <<info, style, figs, ax, cmap, trace>>

----------------------------------------------------------------------------
(* _get_pareto_front_3d *)

\* plt.style.use("ggplot")
Style3D ==
    /\ pc = "3d_style"
    /\ style' = "ggplot"
    /\ trace' = Append(trace, "style.use")
    /\ pc' = After(Order3D, pc)
    /\ UNCHANGED <<info, figs, ax, cmap, result, calls>>

\* plt.figure() and fig.add_subplot(projection="3d"): a new figure with new axes, added to the registry
\* variant: the current axes reused when a figure exists (plt.gca())
NewAxes3D_current ==
    IF figs = <<>>
    THEN [figs |-> Append(figs, NewSurface("3d", 3)), ax |-> Len(figs) + 1]
    ELSE [figs |-> figs, ax |-> Len(figs)]

NewAxes3D ==
    [figs |-> Append(figs, NewSurface("3d", 3)), ax |-> Len(figs) + 1]

\* the surface is created and titled, the colormap looked up
Subplots3D ==
    /\ pc = "3d_subplots"
    /\ figs' = NewAxes3D.figs
    /\ ax' = NewAxes3D.ax
    /\ cmap' = "tab10"
    /\ trace' = trace \o <<"new_axes", "set_title", "get_cmap">>
    /\ pc' = After(Order3D, pc)
    /\ UNCHANGED <<info, style, result, calls>>

\* the labels of the plotted axes, in plotting order
\* variant: axis_order ignored
AxisLabels3D_rawOrder ==
    <<At(info.target_names, 0),
      At(info.target_names, 1),
      At(info.target_names, 2)>>

AxisLabels3D ==
    <<At(info.target_names, At(info.axis_order, 0)),
      At(info.target_names, At(info.axis_order, 1)),
      At(info.target_names, At(info.axis_order, 2))>>

\* ax.set_xlabel(...) and the following
Labels3D ==
    /\ pc = "3d_labels"
    /\ figs' = [figs EXCEPT ![ax].labels =
                   [i \in 1 .. Len(@) |->
                       IF i <= 3 THEN AxisLabels3D[i] ELSE @[i]]]
    /\ trace' = trace \o <<"set_xlabel", "set_ylabel", "set_zlabel">>
    /\ pc' = After(Order3D, pc)
    /\ UNCHANGED <<info, style, ax, cmap, result, calls>>

\* the coordinate lists handed to ax.scatter for a trial group
Coords3D(group) ==
    <<[k \in 1 .. Len(group) |-> At(group[k][2], At(info.axis_order, 0))],
      [k \in 1 .. Len(group) |-> At(group[k][2], At(info.axis_order, 1))],
      [k \in 1 .. Len(group) |-> At(group[k][2], At(info.axis_order, 2))]>>

\* the test guarding the scatter of the non-best trials
DrawNonBest3D ==
    /\ info.non_best_trials_with_values.some
    /\ Len(info.non_best_trials_with_values.val) > 0

ScatterNonBest3D ==
    /\ pc = "3d_nonbest"
    /\ IF DrawNonBest3D
       THEN /\ figs' = [figs EXCEPT ![ax] =
                           scatter(@, Coords3D(info.non_best_trials_with_values.val),
                                   <<cmap, 0>>, "Trial")]
            /\ trace' = Append(trace, "scatter Trial")
       ELSE UNCHANGED <<figs, trace>>
    /\ pc' = After(Order3D, pc)
    /\ UNCHANGED <<info, style, ax, cmap, result, calls>>

\* the test guarding the scatter of the best trials
\* variant: a single best trial is not drawn
DrawBest3D_morethanone ==
    /\ info.best_trials_with_values.some
    /\ Len(info.best_trials_with_values.val) > 1

DrawBest3D ==
    /\ info.best_trials_with_values.some
    /\ Len(info.best_trials_with_values.val) # 0

\* variant: the best group is emptied as it is drawn
ScatterBest3D_consuming ==
    /\ pc = "3d_best"
    /\ IF DrawBest3D
       THEN /\ figs' = [figs EXCEPT ![ax] =
                           scatter(@, Coords3D(info.best_trials_with_values.val),
                                   <<cmap, 3>>, "Best Trial")]
            /\ trace' = Append(trace, "scatter Best Trial")
            /\ info' = [info EXCEPT !.best_trials_with_values = Some(<<>>)]
       ELSE UNCHANGED <<figs, trace, info>>
    /\ pc' = After(Order3D, pc)
    /\ UNCHANGED <<style, ax, cmap, result, calls>>

ScatterBest3D ==
    /\ pc = "3d_best"
    /\ IF DrawBest3D
       THEN /\ figs' = [figs EXCEPT ![ax] =
                           scatter(@, Coords3D(info.best_trials_with_values.val),
                                   <<cmap, 3>>, "Best Trial")]
            /\ trace' = Append(trace, "scatter Best Trial")
       ELSE UNCHANGED <<figs, trace>>
    /\ pc' = After(Order3D, pc)
    /\ UNCHANGED <<info, style, ax, cmap, result, calls>>

\* the test guarding ax.legend()
ShouldLegend3D ==
    /\ info.non_best_trials_with_values.some
    /\ has_data(figs[ax])

Legend3D ==
    /\ pc = "3d_legend"
    /\ IF ShouldLegend3D
       THEN /\ figs' = [figs EXCEPT ![ax].legend = TRUE]
            /\ trace' = Append(trace, "legend")
       ELSE UNCHANGED <<figs, trace>>
    /\ pc' = After(Order3D, pc)
    /\ UNCHANGED <<info, style, ax, cmap, result, calls>>

\* return ax
Return3D ==
    /\ pc = "3d_return"
    /\ result' = [kind |-> "Axes", ax |-> ax]
    /\ pc' = "idle"
    /\ calls' = Append(calls, Finished([kind |-> "Axes", ax |-> ax], figs[ax]))
    /\ UNCHANGED <<info, style, figs, ax, cmap, trace>>

----------------------------------------------------------------------------
(* Specifications. *)

Steps2D ==
    \/ Style2D
    \/ Subplots2D
    \/ Labels2D
    \/ ScatterNonBest2D
    \/ ScatterBest2D
    \/ Legend2D
    \/ Return2D

Steps3D ==
    \/ Style3D
    \/ Subplots3D
    \/ Labels3D
    \/ ScatterNonBest3D
    \/ ScatterBest3D
    \/ Legend3D
    \/ Return3D

\* a new process: the default style sheet, no figure
Fresh ==
    /\ style = "default"
    /\ figs = <<>>
    /\ ax = 0
    /\ cmap = "unset"
    /\ trace = <<>>
    /\ result = NoResult
    /\ calls = <<>>

\* one call of plot_pareto_front in a new process, with any info
Init ==
    /\ Fresh
    /\ info \in Infos
    /\ pc = "dispatch"

Next == Dispatch \/ Steps2D \/ Steps3D

Spec == Init /\ [][Next]_vars

\* up to MaxCalls calls in a row in one process
InitSeq ==
    /\ Fresh
    /\ info = [n_targets |-> 0, target_names |-> <<>>, axis_order |-> <<>>,
               best_trials_with_values |-> None,
               non_best_trials_with_values |-> None]
    /\ pc = "idle"

NextSeq == (\E i \in SeqInfos : Call(i)) \/ Dispatch \/ Steps2D \/ Steps3D

SpecSeq == InitSeq /\ [][NextSeq]_vars

----------------------------------------------------------------------------
(* Properties. *)

Range(q) == {q[k] : k \in 1 .. Len(q)}

Succeeded(c) == c.result.kind = "Axes"

Finish == 1 .. Len(calls)

\* the collections of a surface that carry a label
Labelled(s, label) == SelectSeq(s.collections, LAMBDA col : col.label = label)

\* C1: render dispatches on n_targets: 2 runs the 2D routine, 3 runs the 3D
\* routine, and any other value ends in the ValueError whose message carries
\* that very count; nothing else can happen.
C1_Dispatch ==
    /\ pc \in Range(Order2D) => info.n_targets = 2
    /\ pc \in Range(Order3D) => info.n_targets = 3
    /\ \A k \in Finish :
          LET c == calls[k]
              n == c.info.n_targets
          IN  /\ n = 2 => /\ Succeeded(c)
                          /\ c.trace[1] = "_get_pareto_front_2d"
                          /\ c.surface.projection = "rectilinear"
              /\ n = 3 => /\ Succeeded(c)
                          /\ c.trace[1] = "_get_pareto_front_3d"
                          /\ c.surface.projection = "3d"
              /\ n \notin {2, 3} => /\ c.result = ErrorMessage(n)
                                    /\ c.result.count = n
                                    /\ c.trace = <<>>

C1_Witness ==
    /\ pc = "idle"
    /\ calls # <<>>
    /\ calls[1].info.n_targets = 4
    /\ result.kind = "ValueError"
    /\ result.count = 4

\* C2: a call whose n_targets is neither 2 nor 3 raises at the dispatch, in
\* one step that leaves the drawing state as it was: no surface is created,
\* the style sheet and the colormap are not touched, nothing is drawn.
C2_FailFast ==
    [][(pc = "dispatch" /\ info.n_targets \notin {2, 3}) =>
          /\ pc' = "idle"
          /\ result'.kind = "ValueError"
          /\ figs' = figs
          /\ style' = style
          /\ cmap' = cmap
          /\ ax' = ax
          /\ trace' = <<>>]_vars

C2_Witness ==
    /\ pc = "idle"
    /\ result.kind = "ValueError"
    /\ Len(calls) = 2
    /\ Succeeded(calls[1])
    /\ figs = <<calls[1].surface>>
    /\ trace = <<>>

\* C3: after a successful render the legend is attached exactly when the
\* non-best group is present (empty or not) and at least one point was
\* drawn, from either group.
C3_Legend ==
    \A k \in Finish :
        LET c == calls[k]
            b == c.info.best_trials_with_values
            nb == c.info.non_best_trials_with_values
        IN  Succeeded(c) =>
              /\ c.surface.legend <=>
                    (nb.some /\ PointCount(c.surface.collections) > 0)
              /\ c.surface.legend <=> (nb.some /\ OptLen(b) + OptLen(nb) > 0)

C3_Witness ==
    /\ pc = "idle"
    /\ calls # <<>>
    /\ Succeeded(calls[1])
    /\ calls[1].info.non_best_trials_with_values = Some(<<>>)
    /\ OptLen(calls[1].info.best_trials_with_values) > 0
    /\ calls[1].surface.legend

\* C4: after a successful render each group has as many drawn points as it
\* has entries (none when absent or empty), and the k-th point of a group
\* has at plotted axis i the coordinate values[axis_order[i]] of the k-th
\* entry.
GroupDrawn(c, grp, label) ==
    LET cols == Labelled(c.surface, label)
        n == c.info.n_targets
    IN  IF OptLen(grp) = 0
        THEN cols = <<>>
        ELSE /\ Len(cols) = 1
             /\ Len(cols[1].data) = n
             /\ \A i \in 0 .. (n - 1) :
                   /\ Len(At(cols[1].data, i)) = Len(grp.val)
                   /\ \A e \in 1 .. Len(grp.val) :
                         At(cols[1].data, i)[e] =
                             At(grp.val[e][2], At(c.info.axis_order, i))

C4_Points ==
    \A k \in Finish :
        LET c == calls[k]
            b == c.info.best_trials_with_values
            nb == c.info.non_best_trials_with_values
        IN  Succeeded(c) =>
              /\ GroupDrawn(c, b, "Best Trial")
              /\ GroupDrawn(c, nb, "Trial")
              /\ PointCount(c.surface.collections) = OptLen(b) + OptLen(nb)

C4_Witness ==
    /\ pc = "idle"
    /\ calls # <<>>
    /\ Succeeded(calls[1])
    /\ calls[1].info.n_targets = 2
    /\ calls[1].info.axis_order = <<1, 0>>
    /\ OptLen(calls[1].info.non_best_trials_with_values) = 1
    /\ OptLen(calls[1].info.best_trials_with_values) = MaxLen
    /\ Labelled(calls[1].surface, "Best Trial")[1].data[1][1] =
           calls[1].info.best_trials_with_values.val[1][2][2]

\* C5: after a successful render plotted axis i is labelled
\* target_names[axis_order[i]], also when no group is present.
C5_Labels ==
    \A k \in Finish :
        LET c == calls[k]
            n == c.info.n_targets
        IN  Succeeded(c) =>
              /\ Len(c.surface.labels) = n
              /\ \A i \in 0 .. (n - 1) :
                    At(c.surface.labels, i) =
                        At(c.info.target_names, At(c.info.axis_order, i))

C5_Witness ==
    /\ pc = "idle"
    /\ calls # <<>>
    /\ Succeeded(calls[1])
    /\ calls[1].info.axis_order = <<2, 0, 1>>
    /\ calls[1].info.best_trials_with_values = None
    /\ calls[1].info.non_best_trials_with_values = None
    /\ calls[1].surface.collections = <<>>
    /\ calls[1].surface.labels =
           <<<<"Objective", 2>>, <<"Objective", 0>>, <<"Objective", 1>>>>

\* C6: two calls in a row with the same info give the same output: the
\* same error, or surfaces with the same points per group, the same axis
\* labels and the same legend state, whatever was rendered before.
Structure(s) ==
    [collections |-> s.collections, labels |-> s.labels, legend |-> s.legend]

C6_Idempotent ==
    \A k \in Finish :
        (k + 1 \in Finish /\ calls[k].info = calls[k + 1].info) =>
            /\ calls[k].result.kind = calls[k + 1].result.kind
            /\ ~Succeeded(calls[k]) => calls[k].result = calls[k + 1].result
            /\ Succeeded(calls[k]) =>
                  Structure(calls[k].surface) = Structure(calls[k + 1].surface)

C6_Witness ==
    /\ pc = "idle"
    /\ Len(calls) = 3
    /\ calls[1].info.n_targets = 3
    /\ calls[2].info.n_targets = 2
    /\ calls[2].info = calls[3].info
    /\ Succeeded(calls[3])
    /\ PointCount(calls[3].surface.collections) = 2

\* C7 as the specification states it: calls share no mutable state, so the
\* process-wide style sheet is what it was before any call, no surface is
\* changed after its call returned and no two calls return the same surface.
C7_NoSharedState ==
    /\ style = "default"
    /\ \A k \in Finish : Succeeded(calls[k]) =>
          figs[calls[k].result.ax] = calls[k].surface
    /\ \A j, k \in Finish :
          (j < k /\ Succeeded(calls[j]) /\ Succeeded(calls[k])) =>
              calls[j].result.ax # calls[k].result.ax

\* C7, amended: every successful call allocates a fresh surface, which no
\* other call returns or draws into and which is never changed after its
\* call returned; what calls do share is the process-wide style sheet,
\* which is "ggplot" from the first call that reaches a drawing routine on,
\* and the figure registry, which grows by one surface per such call.
Drawing == pc # "idle" /\ ax # 0

StyleWritten ==
    \/ \E k \in Finish : Succeeded(calls[k])
    \/ pc # "idle" /\ "style.use" \in Range(trace)

C7_FreshSurface ==
    /\ \A k \in Finish : Succeeded(calls[k]) =>
          /\ figs[calls[k].result.ax] = calls[k].surface
          /\ Drawing => calls[k].result.ax # ax
    /\ \A j, k \in Finish :
          (j < k /\ Succeeded(calls[j]) /\ Succeeded(calls[k])) =>
              calls[j].result.ax # calls[k].result.ax
    /\ style = IF StyleWritten THEN "ggplot" ELSE "default"
    /\ Len(figs) = Cardinality({k \in Finish : Succeeded(calls[k])})
                       + (IF Drawing THEN 1 ELSE 0)

C7_Witness ==
    /\ pc = "idle"
    /\ Len(calls) = 3
    /\ Succeeded(calls[1])
    /\ ~Succeeded(calls[2])
    /\ Succeeded(calls[3])
    /\ calls[1].info = calls[3].info
    /\ calls[1].result.ax = 1
    /\ calls[3].result.ax = 2
    /\ style = "ggplot"

\* C8: no step of a render call, successful or failing, changes the info it
\* was given: n_targets, target_names, axis_order and both groups stay as
\* they are, absent groups absent and empty groups empty.
C8_InfoReadOnly == [][pc # "idle" => info' = info]_vars

C8_Witness ==
    /\ pc = "idle"
    /\ calls # <<>>
    /\ Succeeded(calls[1])
    /\ info.n_targets = 3
    /\ OptLen(info.best_trials_with_values) = MaxLen
    /\ info.non_best_trials_with_values = Some(<<>>)
    /\ Len(calls[1].surface.collections) = 1

\* C9: a 2D and a 3D render of infos whose groups agree in presence and
\* length take the same decisions: the same groups drawn with the same
\* point counts, colour 0 and label "Trial" for the non-best group, colour
\* 3 and label "Best Trial" for the best group, the same legend state.
Shape(i) ==
    <<i.best_trials_with_values.some, OptLen(i.best_trials_with_values),
      i.non_best_trials_with_values.some, OptLen(i.non_best_trials_with_values)>>

Decisions(s) ==
    [drawn |-> [k \in 1 .. Len(s.collections) |->
                   [color |-> s.collections[k].color,
                    label |-> s.collections[k].label,
                    count |-> Len(s.collections[k].data[1])]],
     legend |-> s.legend]

Tagged(s) ==
    \A k \in 1 .. Len(s.collections) :
        \/ /\ s.collections[k].label = "Trial"
           /\ s.collections[k].color = <<"tab10", 0>>
        \/ /\ s.collections[k].label = "Best Trial"
           /\ s.collections[k].color = <<"tab10", 3>>

C9_SameDecisions ==
    \A j, k \in Finish :
        (/\ Succeeded(calls[j])
         /\ Succeeded(calls[k])
         /\ calls[j].info.n_targets = 2
         /\ calls[k].info.n_targets = 3
         /\ Shape(calls[j].info) = Shape(calls[k].info)) =>
            /\ Decisions(calls[j].surface) = Decisions(calls[k].surface)
            /\ Tagged(calls[j].surface)
            /\ Tagged(calls[k].surface)

C9_Witness ==
    /\ pc = "idle"
    /\ Len(calls) = 2
    /\ calls[1].info.n_targets = 2
    /\ calls[2].info.n_targets = 3
    /\ Shape(calls[1].info) = <<TRUE, 1, TRUE, 1>>
    /\ Shape(calls[2].info) = <<TRUE, 1, TRUE, 1>>
    /\ Len(calls[1].surface.collections) = 2
    /\ calls[2].surface.legend

\* C10: within a render the surface is created first, then the axes are
\* labelled, then the non-best group is drawn, then the best group, and
\* only then is the legend decided: non-best points come strictly before
\* best points, and the legend is never attached before every point of the
\* call is drawn.
Rank(e) ==
    CASE e = "new_axes" -> 1
      [] e \in {"set_xlabel", "set_ylabel", "set_zlabel"} -> 2
      [] e = "scatter Trial" -> 3
      [] e = "scatter Best Trial" -> 4
      [] e = "legend" -> 5
      [] OTHER -> 0

C10_Order ==
    LET ranked == SelectSeq(trace, LAMBDA e : Rank(e) > 0)
    IN  /\ \A i, j \in 1 .. Len(ranked) :
              i < j => /\ Rank(ranked[i]) <= Rank(ranked[j])
                       /\ Rank(ranked[i]) >= 3 => Rank(ranked[i]) < Rank(ranked[j])
        /\ (ranked # <<>>) => Rank(ranked[1]) = 1
        /\ "legend" \in Range(trace) =>
              PointCount(figs[ax].collections) =
                  OptLen(info.best_trials_with_values)
                      + OptLen(info.non_best_trials_with_values)
        /\ (pc = "idle" /\ result.kind = "Axes") =>
              {"set_xlabel", "set_ylabel"} \subseteq Range(trace)

C10_Witness ==
    /\ pc = "idle"
    /\ result.kind = "Axes"
    /\ info.n_targets = 2
    /\ trace = <<"_get_pareto_front_2d", "style.use", "new_axes", "set_title",
                 "get_cmap", "set_xlabel", "set_ylabel", "scatter Trial",
                 "scatter Best Trial", "legend">>

====
